---- MODULE Spec2Model ----
(***************************************************************************)
(* pystrike: the lazy-mirror Charge object (pystrike/charge.py) and its    *)
(* exceptions (pystrike/exceptions.py), as a state machine.                *)
(*                                                                         *)
(* One Charge instance is followed through its life: it is produced by     *)
(* Charge.__init__ or Charge.from_charge_id, after which the caller calls  *)
(* update() or reads attributes.  The HTTPS connection and the Strike      *)
(* server are the environment: what api_connection.request(),              *)
(* api_connection.getresponse() and response.read() do on each call is     *)
(* drawn from the bounded set Transports.                                  *)
(***************************************************************************)
EXTENDS Integers, Sequences, FiniteSets, TLC

VARIABLES
    charge,     \* the instance's attributes (charge.py:106-117)
    alive,      \* the caller holds a reference to the instance
    args,       \* the arguments the instance was constructed with, and by what
    opName,     \* the last operation of the caller
    first,      \* the last operation was the first one on the instance
    opArg,      \* its argument: the attribute read, or the charge_id looked up
    pre,        \* the attributes when the operation's update() was entered
    sent,       \* the api_connection.request() calls the operation made, in order
    nsync,      \* the update() calls the operation made
    raised,     \* the exception class the operation raised, or NoException
    wire,       \* what the transport did during the operation
    hist        \* what the caller saw of the operations before the last one

vars ==
    <<charge, alive, args, opName, first, opArg, pre, sent, nsync, raised, wire, hist>>

-----------------------------------------------------------------------------
(* Values *)

\* Python's None, for the attributes __init__ leaves unset and for JSON null.
None == "None"

NoException == "none"

\* make_charge_class's parameters.
ApiKey == "sk_test"
ApiBase == "/api/v1/"

CURRENCY_BTC == "btc"

\* The keys _fill_from_data_dict reads, in the order it reads them.
FillOrder ==
    << "id", "amount", "currency", "amount_satoshi", "payment_hash",
       "payment_request", "description", "paid", "created", "updated" >>

SuccessKeys == { FillOrder[i] : i \in 1..Len(FillOrder) }

\* The attributes of an instance.
Attributes == SuccessKeys \cup {"customer_id"}

\* pystrike/exceptions.py: each exception class and its base class.
ExceptionBase ==
    [ ConnectionException         |-> "Exception",
      ClientRequestException      |-> "Exception",
      ServerErrorException        |-> "Exception",
      UnexpectedResponseException |-> "Exception",
      ChargeNotFoundException     |-> "ClientRequestException" ]

\* The exception classes of the library.
Taxonomy == DOMAIN ExceptionBase

\* isinstance(e, cls) for an exception of class e: what `except cls` catches.
IsInstance(e, cls) ==
    \/ e = cls
    \/ e \in Taxonomy /\ ExceptionBase[e] = cls

-----------------------------------------------------------------------------
(* The environment: the connection and the server behind it *)

\* How many of the success keys a partly filled response body may lack.
MaxMissing == 1

\* The charge ids the server issues, and JSON null.
ServerIds == {"ch_server1", None}

\* The charge ids a caller looks up.
LookupIds == {"ch_madeupchargeid", ""}

\* The values the server sends for the other keys of a charge.
ServerValue ==
    [ amount          |-> 250,
      currency        |-> "tbtc",
      amount_satoshi  |-> "25000000000",
      payment_hash    |-> "hash",
      payment_request |-> "lntb2500m1pdrequest",
      description     |-> "server note",
      created         |-> "1540000000",
      updated         |-> "1540000600" ]

\* The status codes of an error body: the edges of the classes update() tells apart.
Codes == {399, 400, 404, 499, 500, 599, 600}

\* What json.loads(response.read()) yields, or fails on.
\*   kind "dict": a JSON object with the keys `keys`; "id", "paid" and "code"
\*     hold id, paid and code when present (codeIsInt: the code is a JSON
\*     number; otherwise it is a JSON string), the rest hold ServerValue.
\*   kind "list": JSON that is not an object.
\*   kind "malformed": not JSON.
\*   kind "none": no body was read.
\* A key that is absent has one value, and so has a code that is not a number.
Body(ks, i, p, c, n) ==
    [ kind      |-> "dict",
      keys      |-> ks,
      id        |-> IF "id" \in ks THEN i ELSE None,
      paid      |-> IF "paid" \in ks THEN p ELSE FALSE,
      code      |-> IF "code" \in ks /\ n THEN c ELSE 404,
      codeIsInt |-> IF "code" \in ks THEN n ELSE TRUE ]

\* The success shape: every key of a charge, and nothing else.
SuccessBodies ==
    { Body(SuccessKeys, i, p, 404, TRUE) : i \in ServerIds, p \in BOOLEAN }

\* The error shape: no key of a charge; a code, a message, both or neither.
ErrorBodies ==
    { Body(ek, None, FALSE, c, n) :
        ek \in SUBSET {"code", "message"}, c \in Codes, n \in BOOLEAN }

\* A paid charge that lacks some of its keys, up to MaxMissing of them.
PartialBodies ==
    { Body(SuccessKeys \ m, "ch_server1", TRUE, 404, TRUE) :
        m \in { s \in SUBSET SuccessKeys : Cardinality(s) \in 1..MaxMissing } }

NoBody ==
    [ kind |-> "none", keys |-> {}, id |-> None, paid |-> FALSE,
      code |-> 404, codeIsInt |-> TRUE ]

Bodies ==
    SuccessBodies \cup ErrorBodies \cup PartialBodies
        \cup { [NoBody EXCEPT !.kind = "list"], [NoBody EXCEPT !.kind = "malformed"] }

\* How a call of api_connection.request() fails: the host name does not
\* resolve, or the host refuses the connection.
SendFailures == {"gaierror", "ConnectionRefusedError"}

\* How a call of api_connection.getresponse() fails: the server closed the
\* connection before answering, or the read timed out.
RecvFailures == {"RemoteDisconnected", "timeout"}

\* What the connection does on one request() and the getresponse() after it.
Attempts ==
    { <<f>> : f \in SendFailures } \cup { <<"sent", f>> : f \in RecvFailures }
        \cup { <<"sent", "response">> }

\* What the connection does on the calls of one update(), in order: one
\* attempt, and after a closed connection what it would do on a second.
Scripts ==
    (Attempts \ { <<"sent", "RemoteDisconnected">> })
        \cup { <<"sent", "RemoteDisconnected">> \o a : a \in Attempts }

\* The transport's behaviour during one update(): the script of the
\* connection and, when it ends with a response, the body read from it.
Transports ==
    { [ script |-> sc, body |-> NoBody ] :
        sc \in { x \in Scripts : x[Len(x)] # "response" } }
    \cup
    { [ script |-> sc, body |-> b ] :
        sc \in { x \in Scripts : x[Len(x)] = "response" }, b \in Bodies }

-----------------------------------------------------------------------------
(* Charge (charge.py) *)

\* dict[key] for a key the body holds.
Item(data, key) ==
    CASE key = "id"   -> data.id
      [] key = "paid" -> data.paid
      [] OTHER        -> ServerValue[key]

\* The description not kept: every instance starts with the default.
NewCharge_default_description(amount, currency, description, customer_id) ==
    [ amount          |-> amount,
      currency        |-> currency,
      description     |-> "",
      customer_id     |-> customer_id,
      id              |-> None,
      amount_satoshi  |-> None,
      payment_request |-> None,
      payment_hash    |-> None,
      paid            |-> FALSE,
      created         |-> None,
      updated         |-> None ]

\* The attributes as __init__ sets them, before any update().
NewCharge(amount, currency, description, customer_id) ==
    [ amount          |-> amount,
      currency        |-> currency,
      description     |-> description,
      customer_id     |-> customer_id,
      id              |-> None,
      amount_satoshi  |-> None,
      payment_request |-> None,
      payment_hash    |-> None,
      paid            |-> FALSE,
      created         |-> None,
      updated         |-> None ]

\* A test for falsiness instead: an empty id counts as no id.
must_create_falsy(c) == c.id = None \/ c.id = ""

\* update()'s test for creating the charge rather than retrieving it.
must_create(c) == c.id = None

\* The request update() builds to create the charge on the server.  The body
\* is urlencode's: the four pairs, each value through str().
CreateRequest(c) ==
    [ method  |-> "POST",
      path    |-> <<ApiBase, "charges">>,
      body    |-> [ none |-> FALSE,
                    form |-> << <<"amount", ToString(c.amount)>>,
                                <<"currency", c.currency>>,
                                <<"description", c.description>>,
                                <<"customer_id", c.customer_id>> >> ],
      headers |-> { <<"Authorization", "Basic b64(" \o ApiKey \o ":)">>,
                    <<"Content-Type", "application/x-www-form-urlencoded">>,
                    <<"Accept", "*/*">>,
                    <<"User-Agent", "pystrikev0.5.1">> } ]

\* The retrieval sent to the collection, the id left out of the path.
RefreshRequest_no_id(c) ==
    [ method  |-> "GET",
      path    |-> <<ApiBase, "charges">>,
      body    |-> [ none |-> TRUE ],
      headers |-> { <<"Authorization", "Basic b64(" \o ApiKey \o ":)">>,
                    <<"Accept", "*/*">>,
                    <<"User-Agent", "pystrikev0.5.1">> } ]

\* The request update() builds to retrieve the charge from the server.
RefreshRequest(c) ==
    [ method  |-> "GET",
      path    |-> <<ApiBase, "charges/", c.id>>,
      body    |-> [ none |-> TRUE ],
      headers |-> { <<"Authorization", "Basic b64(" \o ApiKey \o ":)">>,
                    <<"Accept", "*/*">>,
                    <<"User-Agent", "pystrikev0.5.1">> } ]

BuildRequest(c) ==
    IF must_create(c) THEN CreateRequest(c) ELSE RefreshRequest(c)

\* No request is sent again.
RetryOnDisconnect_never(method) == FALSE

\* Every request is sent again, the POST too.
RetryOnDisconnect_always(method) == TRUE

\* _make_request's test for sending the request again after the server closed
\* the connection.
RetryOnDisconnect(method) == method = "GET"

\* The except clause around the first request(): the exception it turns into a
\* ConnectionException.
CaughtOnSend(e) == e = "gaierror"

\* _make_request, given what the transport does (t).  The result holds the
\* request() calls made, what the transport did on each call made, the
\* exception raised (or NoException) and the body read from the response,
\* which json.loads turns into the data returned.
_make_request(req, t) ==
    LET Out(calls, n, exc, body) ==
            [ calls  |-> calls, events |-> SubSeq(t.script, 1, n),
              raised |-> exc, data |-> body ]
        \* return json.loads(response.read())
        Loads(calls, n) ==
            Out(calls, n,
                IF t.body.kind = "malformed" THEN "JSONDecodeError" ELSE NoException,
                t.body)
    IN  IF t.script[1] # "sent"
        THEN Out(<<req>>, 1,
                 IF CaughtOnSend(t.script[1]) THEN "ConnectionException"
                                              ELSE t.script[1],
                 NoBody)
        ELSE IF t.script[2] = "response"
        THEN Loads(<<req>>, 2)
        ELSE IF t.script[2] = "RemoteDisconnected"
        THEN IF RetryOnDisconnect(req.method)
             THEN \* the second request() and getresponse(), under the bare except
                  IF t.script[3] # "sent"
                  THEN Out(<<req, req>>, 3, "ConnectionException", NoBody)
                  ELSE IF t.script[4] = "response"
                  THEN Loads(<<req, req>>, 4)
                  ELSE Out(<<req, req>>, 4, "ConnectionException", NoBody)
             \* the handler does nothing, and `response` is unbound at the return
             ELSE Out(<<req>>, 2, "UnboundLocalError", NoBody)
        \* any other exception of getresponse(): the bare except
        ELSE Out(<<req>>, 2, "ConnectionException", NoBody)

\* _fill_from_data_dict from its i-th assignment on: each assignment reads
\* data[key] and sets the attribute; the first key the body lacks raises
\* KeyError, with the earlier assignments done.  Subscripting JSON that is
\* not an object with a string raises TypeError.
RECURSIVE FillFrom(_, _, _)
FillFrom(c, data, i) ==
    IF i > Len(FillOrder)
    THEN [ charge |-> c, raised |-> NoException ]
    ELSE IF data.kind # "dict"
    THEN [ charge |-> c, raised |-> "TypeError" ]
    ELSE IF FillOrder[i] \notin data.keys
    THEN [ charge |-> c, raised |-> "KeyError" ]
    ELSE FillFrom([c EXCEPT ![FillOrder[i]] = Item(data, FillOrder[i])], data, i + 1)

\* The assignment of id left out.
_fill_from_data_dict_no_id(c, data) == FillFrom(c, data, 2)

\* customer_id filled as well, from a body that never holds it.
_fill_from_data_dict_customer_id(c, data) ==
    LET f == FillFrom(c, data, 1)
    IN  IF f.raised = NoException
        THEN [ f EXCEPT !.charge.customer_id = "" ]
        ELSE f

_fill_from_data_dict(c, data) == FillFrom(c, data, 1)

\* raise X(data['message']): the KeyError of the subscript when the body has
\* no message.
RaiseWithMessage(data, exc) ==
    IF "message" \in data.keys THEN exc ELSE "KeyError"

\* update()'s handler of the KeyError: the exception it raises for the body.
\* An int is compared with the class bounds; a str is not equal to 404, and
\* its comparison with 400 raises TypeError.
Classify(data) ==
    IF "code" \in data.keys
    THEN IF ~data.codeIsInt THEN "TypeError"
         ELSE IF data.code = 404
              THEN RaiseWithMessage(data, "ChargeNotFoundException")
         ELSE IF data.code >= 400 /\ data.code <= 499
              THEN RaiseWithMessage(data, "ClientRequestException")
         ELSE IF data.code >= 500 /\ data.code <= 599
              THEN RaiseWithMessage(data, "ServerErrorException")
         ELSE "UnexpectedResponseException"
    ELSE "UnexpectedResponseException"

\* update() on the attributes c, given what the transport does: the
\* attributes after it, the exception it raises, and what _make_request did.
update(c, t) ==
    LET r == _make_request(BuildRequest(c), t)
        f == _fill_from_data_dict(c, r.data)
    IN  IF r.raised # NoException
        THEN [ charge |-> c, raised |-> r.raised, calls |-> r.calls,
               events |-> r.events, data |-> r.data ]
        ELSE [ charge |-> f.charge,
               raised |-> IF f.raised = "KeyError" THEN Classify(r.data) ELSE f.raised,
               calls  |-> r.calls, events |-> r.events, data |-> r.data ]

-----------------------------------------------------------------------------
(* The caller's operations *)

\* The arguments callers construct charges with.
Amounts == {100}
Currencies == {CURRENCY_BTC, "non-existant-currency"}
Descriptions == {"Charge creation note"}
CustomerIds == {"", "cust_1"}

NoWire == [ events |-> <<>>, data |-> NoBody ]

\* The history of an instance whose operations are not followed.
NoHistory ==
    [ on |-> FALSE, methods |-> <<>>, same |-> FALSE, createdId |-> "-" ]

\* The history of an instance that is followed, before its first operation.
EmptyHistory == [ NoHistory EXCEPT !.on = TRUE ]

\* The history once the operation that is now the last one is followed by
\* another, during which the transport does w:
\*   methods: the methods of the request() calls of the last operation, if it
\*     was charge.update() on an instance that had an id;
\*   same: ... and the transport does for the new operation what it did for
\*     that one;
\*   createdId: the id the first update() that sent the creation request and
\*     returned has brought ("-" while there is none).
Remember(w) ==
    IF ~hist.on THEN hist
    ELSE [ on        |-> TRUE,
           methods   |-> IF opName = "update" /\ pre.id # None
                         THEN [ i \in 1..Len(sent) |-> sent[i].method ]
                         ELSE <<>>,
           same      |-> opName = "update" /\ pre.id # None /\ w = wire,
           createdId |-> IF /\ hist.createdId = "-"
                            /\ nsync = 1 /\ pre.id = None /\ raised = NoException
                         THEN charge.id
                         ELSE hist.createdId ]

\* The state after an operation that ran update() once, with result u.
Synchronized(name, arg, c, u) ==
    /\ opName' = name
    /\ first' = (opName \in {"construct", "from_charge_id"})
    /\ opArg' = arg
    /\ pre' = c
    /\ charge' = u.charge
    /\ sent' = u.calls
    /\ nsync' = 1
    /\ raised' = u.raised
    /\ wire' = [ events |-> u.events, data |-> u.data ]
    /\ hist' = Remember([ events |-> u.events, data |-> u.data ])

\* Charge(amount, currency, description, customer_id, create): the instance
\* reaches the caller unless update() raises.
__init__(amount, currency, description, customer_id, create) ==
    LET c == NewCharge(amount, currency, description, customer_id)
    IN  /\ opName = "none"
        /\ args' = [ amount |-> amount, currency |-> currency,
                     description |-> description, customer_id |-> customer_id,
                     create |-> create, by |-> "__init__" ]
        /\ IF create
           THEN \E t \in Transports :
                    /\ Synchronized("construct", "create", c, update(c, t))
                    /\ alive' = (update(c, t).raised = NoException)
           ELSE /\ opName' = "construct"
                /\ first' = FALSE
                /\ opArg' = "no create"
                /\ pre' = c
                /\ charge' = c
                /\ sent' = <<>>
                /\ nsync' = 0
                /\ raised' = NoException
                /\ wire' = NoWire
                /\ hist' = Remember(NoWire)
                /\ alive' = TRUE

\* Charge.from_charge_id(charge_id).
from_charge_id(charge_id) ==
    LET c == [ NewCharge(0, CURRENCY_BTC, "", "") EXCEPT !.id = charge_id ]
    IN  /\ opName = "none"
        /\ args' = [ amount |-> 0, currency |-> CURRENCY_BTC,
                     description |-> "", customer_id |-> "", create |-> FALSE,
                     by |-> "from_charge_id" ]
        /\ \E t \in Transports :
                /\ Synchronized("from_charge_id", charge_id, c, update(c, t))
                /\ alive' = (update(c, t).raised = NoException)

\* charge.update(), called by the holder of the instance.
Update ==
    /\ alive
    /\ \E t \in Transports : Synchronized("update", "-", charge, update(charge, t))
    /\ UNCHANGED <<alive, args>>

\* charge.<attr>: the class defines no __getattribute__, __getattr__ or
\* property for its attributes, so a read is the plain instance attribute.
Read(attr) ==
    /\ alive
    /\ opName' = "read"
    /\ first' = (opName \in {"construct", "from_charge_id"})
    /\ opArg' = attr
    /\ pre' = charge
    /\ sent' = <<>>
    /\ nsync' = 0
    /\ raised' = NoException
    /\ wire' = NoWire
    /\ hist' = Remember(NoWire)
    /\ UNCHANGED <<charge, alive, args>>

Init ==
    /\ charge = NewCharge(0, CURRENCY_BTC, "", "")
    /\ pre = NewCharge(0, CURRENCY_BTC, "", "")
    /\ alive = FALSE
    /\ args = [ amount |-> 0, currency |-> CURRENCY_BTC,
                description |-> "", customer_id |-> "", create |-> FALSE,
                by |-> "nothing" ]
    /\ opName = "none"
    /\ first = FALSE
    /\ opArg = "-"
    /\ sent = <<>>
    /\ nsync = 0
    /\ raised = NoException
    /\ wire = NoWire
    /\ hist = NoHistory

Next ==
    \/ \E a \in Amounts, cu \in Currencies, d \in Descriptions,
          ci \in CustomerIds, cr \in BOOLEAN : __init__(a, cu, d, ci, cr)
    \/ \E i \in LookupIds : from_charge_id(i)
    \/ Update
    \/ \E attr \in Attributes : Read(attr)

Spec == Init /\ [][Next]_vars

\* The same instance with its history followed, through the operations that
\* talk to the server.
InitHistory ==
    /\ charge = NewCharge(0, CURRENCY_BTC, "", "")
    /\ pre = NewCharge(0, CURRENCY_BTC, "", "")
    /\ alive = FALSE
    /\ args = [ amount |-> 0, currency |-> CURRENCY_BTC,
                description |-> "", customer_id |-> "", create |-> FALSE,
                by |-> "nothing" ]
    /\ opName = "none"
    /\ first = FALSE
    /\ opArg = "-"
    /\ sent = <<>>
    /\ nsync = 0
    /\ raised = NoException
    /\ wire = NoWire
    /\ hist = EmptyHistory

NextHistory ==
    \/ \E a \in Amounts, cu \in Currencies, d \in Descriptions,
          ci \in CustomerIds, cr \in BOOLEAN : __init__(a, cu, d, ci, cr)
    \/ \E i \in LookupIds : from_charge_id(i)
    \/ Update

SpecHistory == InitHistory /\ [][NextHistory]_vars

-----------------------------------------------------------------------------
(* Properties *)

\* r is the creation request for the terms of c: POST to api_base + 'charges'
\* with the form of amount, currency, description and customer_id.
IsCreate(r, c) ==
    /\ r.method = "POST"
    /\ r.path = <<ApiBase, "charges">>
    /\ ~r.body.none
    /\ r.body.form = << <<"amount", ToString(c.amount)>>,
                        <<"currency", c.currency>>,
                        <<"description", c.description>>,
                        <<"customer_id", c.customer_id>> >>

\* r is the retrieval of the charge id: GET to api_base + 'charges/' + id,
\* with no body.
IsRefresh(r, id) ==
    /\ r.method = "GET"
    /\ r.path = <<ApiBase, "charges/", id>>
    /\ r.body.none

\* The last operation ran update().
Synced == nsync = 1

\* The body of the response the last update() read is a JSON object.
GotObject == Synced /\ wire.data.kind = "dict"

\* ... and it has the success shape: every key of a charge.
GotSuccessShape == GotObject /\ SuccessKeys \subseteq wire.data.keys

\* C1: every update() on a charge whose id is None sends the creation request
\* (POST, api_base + 'charges', the form of the four terms), every update() on
\* a charge whose id is set sends the retrieval (GET, api_base + 'charges/' +
\* id, no body), and every request it sends is that one.
C1_ModeDecidedById ==
    Synced =>
        /\ Len(sent) >= 1
        /\ \A i \in 1..Len(sent) :
              IF pre.id = None THEN IsCreate(sent[i], pre)
                               ELSE IsRefresh(sent[i], pre.id)

\* An explicit update() on an instance made without create sent the POST.
C1_Witness ==
    /\ opName = "update"
    /\ pre.id = None
    /\ Len(sent) = 1
    /\ sent[1].method = "POST"

\* The attributes only the server sets whose read the class docstring and the
\* lazy-access law speak of.
LazyAttributes == {"id", "amount_satoshi", "payment_request", "created", "updated"}

\* C2: on an instance constructed with create=False, the first read of an
\* unset server-only attribute runs update() exactly once, and when that
\* update() succeeds every server-only attribute is set.
C2_LazyAccess ==
    ( /\ opName = "read"
      /\ first
      /\ args.by = "__init__" /\ ~args.create
      /\ opArg \in LazyAttributes
      /\ pre[opArg] = None )
    => /\ nsync = 1
       /\ raised = NoException => \A a \in LazyAttributes : charge[a] # None

\* C3: a read of paid while it is False runs update() exactly once; a read of
\* paid once it is True runs no update() and sends no request.
C3_PaidPolling ==
    (opName = "read" /\ opArg = "paid") =>
        IF pre.paid THEN nsync = 0 /\ sent = <<>>
                    ELSE nsync = 1 /\ Len(sent) >= 1

\* C4: when update() raises, every attribute has the value it had before.
C4_NoPartialMutation ==
    (Synced /\ raised # NoException) => charge = pre

\* The exception class the classification policy gives a status code.
ClassOfCode(code) ==
    IF code = 404 THEN "ChargeNotFoundException"
    ELSE IF code \in 400..499 THEN "ClientRequestException"
    ELSE IF code \in 500..599 THEN "ServerErrorException"
    ELSE "UnexpectedResponseException"

\* C5: when the body lacks a success key and holds a (numeric) code, update()
\* raises the class of that code; the exception of a 404 is also an instance
\* of ClientRequestException.
C5_Classification ==
    ( /\ GotObject
      /\ ~(SuccessKeys \subseteq wire.data.keys)
      /\ "code" \in wire.data.keys
      /\ wire.data.codeIsInt )
    => /\ raised = ClassOfCode(wire.data.code)
       /\ wire.data.code = 404 => IsInstance(raised, "ClientRequestException")

\* The response of a server that accepted the creation: the new charge, with
\* an id and not paid.
GotNewCharge ==
    GotSuccessShape /\ wire.data.id \notin {None, ""} /\ ~wire.data.paid

FilledFromResponse ==
    GotSuccessShape =>
        /\ alive /\ raised = NoException
        /\ \A k \in SuccessKeys : charge[k] = Item(wire.data, k)

RefreshCutOff ==
    /\ Synced
    /\ pre.id # None
    /\ Len(wire.events) >= 2
    /\ wire.events[2] = "RemoteDisconnected"

\* C8: when the server closes the connection on a retrieval, update() sends
\* the same request (method, path, body, headers) once more; when that one is
\* answered, the attributes and the outcome are those of an update() whose
\* first request got that answer.
C8_RetryOnRefresh ==
    RefreshCutOff =>
        /\ Len(sent) = 2
        /\ IsRefresh(sent[1], pre.id)
        /\ sent[2] = sent[1]
        /\ wire.events = <<"sent", "RemoteDisconnected", "sent", "response">> =>
              LET direct == update(pre, [ script |-> <<"sent", "response">>,
                                          body   |-> wire.data ])
              IN  /\ charge = direct.charge
                  /\ raised = direct.raised

\* The first GET after the payment cleared is cut off, and the second one
\* brings paid = True.
C8_Witness ==
    /\ opName = "update"
    /\ RefreshCutOff
    /\ wire.events = <<"sent", "RemoteDisconnected", "sent", "response">>
    /\ raised = NoException
    /\ ~pre.paid /\ charge.paid

\* C9: when the server closes the connection on a creation, update() sends
\* nothing more and raises ConnectionException.
C9_NoRetryOnCreate ==
    ( /\ Synced
      /\ pre.id = None
      /\ Len(wire.events) >= 2
      /\ wire.events[2] = "RemoteDisconnected" )
    => /\ Len(sent) = 1
       /\ raised = "ConnectionException"

\* C10: when the transport fails, in request() or in getresponse(), update()
\* raises ConnectionException; after a failure of the first request() no
\* second request is sent.
C10_TransportFailure ==
    ( /\ Synced
      /\ wire.events[Len(wire.events)] # "response" )
    => /\ raised = "ConnectionException"
       /\ wire.events[1] # "sent" => Len(sent) = 1

\* C11: when the body of the response is not JSON, update() raises
\* UnexpectedResponseException.
C11_MalformedBody ==
    (Synced /\ wire.data.kind = "malformed") =>
        raised = "UnexpectedResponseException"

\* C12: an operation entered with a non-empty id leaves the id non-empty,
\* whatever the response.
C12_IdNeverReverts ==
    pre.id \notin {None, ""} => charge.id \notin {None, ""}

\* C13: paid is False on a new instance; an operation makes it True only by
\* an update() whose response holds paid = True; once True it stays True.
C13_PaidMonotone ==
    /\ (opName = "construct" /\ opArg = "no create") => ~charge.paid
    /\ (~pre.paid /\ charge.paid) =>
            Synced /\ GotObject /\ "paid" \in wire.data.keys /\ wire.data.paid
    /\ pre.paid => charge.paid

\* C15: Charge(..., create=False) calls request() not at all, leaves id,
\* amount_satoshi, payment_request, payment_hash, created and updated None and
\* paid False, and holds the four arguments.
C15_ConstructWithoutCreate ==
    (opName = "construct" /\ opArg = "no create") =>
        /\ sent = <<>> /\ nsync = 0 /\ wire.events = <<>>
        /\ \A a \in {"id", "amount_satoshi", "payment_request", "payment_hash",
                     "created", "updated"} : charge[a] = None
        /\ charge.paid = FALSE
        /\ charge.amount = args.amount
        /\ charge.currency = args.currency
        /\ charge.description = args.description
        /\ charge.customer_id = args.customer_id

\* Charge(100, 'btc', 'Charge creation note', 'cust_1', create=False).
C15_Witness ==
    /\ opName = "construct" /\ opArg = "no create"
    /\ alive
    /\ charge.description = "Charge creation note"
    /\ charge.customer_id = "cust_1"
    /\ charge.id = None

\* C16: one update() calls request() once or twice; twice only for a GET
\* whose first getresponse() met a closed connection; when the second attempt
\* fails too, a closed connection included, update() raises
\* ConnectionException and the transport is asked nothing more.
C16_BoundedRetry ==
    Synced =>
        /\ Len(sent) \in {1, 2}
        /\ Len(wire.events) <= 2 * Len(sent)
        /\ Len(sent) = 2 =>
              /\ pre.id # None
              /\ \A i \in 1..2 : sent[i].method = "GET"
              /\ SubSeq(wire.events, 1, 2) = <<"sent", "RemoteDisconnected">>
              /\ wire.events[Len(wire.events)] # "response" =>
                    raised = "ConnectionException"

\* The second GET met a closed connection as well.
C16_Witness ==
    /\ opName = "update"
    /\ Len(sent) = 2
    /\ wire.events = <<"sent", "RemoteDisconnected", "sent", "RemoteDisconnected">>
    /\ raised = "ConnectionException"

\* C17: for every parsed body that lacks a success key, an object or not,
\* update() raises ChargeNotFoundException, ClientRequestException,
\* ServerErrorException or UnexpectedResponseException.
C17_ErrorsInTaxonomy ==
    (Synced /\ wire.data.kind \in {"dict", "list"} /\ ~GotSuccessShape) =>
        raised \in { "ChargeNotFoundException", "ClientRequestException",
                     "ServerErrorException", "UnexpectedResponseException" }

\* C19: an update() that succeeds leaves amount, currency and description
\* with the values of the response and customer_id as it was; customer_id is
\* the argument of the construction after every operation.
C19_OverwriteAndKeep ==
    /\ (Synced /\ raised = NoException) =>
          /\ GotSuccessShape
          /\ charge.amount = ServerValue.amount
          /\ charge.currency = ServerValue.currency
          /\ charge.description = ServerValue.description
          /\ charge.customer_id = pre.customer_id
    /\ opName # "none" => charge.customer_id = args.customer_id

\* An update() brought the server's terms to an instance of customer cust_1.
C19_Witness ==
    /\ opName = "update"
    /\ raised = NoException
    /\ args.customer_id = "cust_1"
    /\ pre.amount = 100 /\ charge.amount = ServerValue.amount
    /\ pre.description # charge.description
    /\ charge.customer_id = "cust_1"

\* The last two operations were charge.update() on an instance that had an id
\* before the first, and the transport did the same for both.
UpdatedTwice ==
    /\ opName = "update"
    /\ hist.methods # <<>>
    /\ hist.same

\* C14: two update() calls in succession on a charge that has an id, answered
\* alike, send two requests in all, both the GET for the charge and none a
\* POST, and the second call leaves every attribute as the first left it.
C14_RefreshIdempotent ==
    UpdatedTwice =>
        /\ Len(hist.methods) + Len(sent) = 2
        /\ \A i \in 1..Len(hist.methods) : hist.methods[i] = "GET"
        /\ \A i \in 1..Len(sent) : sent[i].method = "GET"
        /\ charge = pre

\* C18: once an update() that sent the creation request has returned, every
\* later update() on the instance sends only the GET for the id that update()
\* brought, and none creates the charge again.
C18_NoDuplicateCreation ==
    (Synced /\ hist.createdId # "-") =>
        /\ \A i \in 1..Len(sent) : IsRefresh(sent[i], hist.createdId)
        /\ ~(pre.id = None /\ raised = NoException)

====
